---- MODULE Spec2Model ----
(***************************************************************************)
(* Model of convert_to_webp_and_thumbs.py: the per-file conversion         *)
(* (process_single_file / process_file_task), the ProcessPoolExecutor the  *)
(* files are submitted to, the as_completed loop of main() that folds the  *)
(* outcomes into the run totals, and the summary / failure list at the end.*)
(***************************************************************************)
EXTENDS Integers, Sequences, FiniteSets, TLC

\* ------------------------------------------------------------------ bounds
MaxFiles == 3       \* largest number of image files in input_folder
MaxWorkers == 2     \* largest configured max_workers
MaxRuns == 2        \* largest number of runs of the program over one folder

\* ------------------------------------------------ time stamps of the model
\* The first run takes place at Now, each later run one tick after the one
\* before it. Outputs of earlier runs lie before Now.
Now == 5

\* ------------------------------------------------------------- file names
\* A directory entry name is its dot-separated parts: a.jpg is <<"a","jpg">>.
Lower(s) ==
  CASE s = "PNG" -> "png"
    [] s = "GIF" -> "gif"
    [] OTHER -> s

allowed == {"jpg", "jpeg", "png", "gif", "webp", "bmp", "tiff"}

\* Path(src_path).stem : the name without its last suffix
Stem(name) == SubSeq(name, 1, Len(name) - 1)

\* Path(config["output_webp_folder"]) / f"{name}.webp"
OutWebp(name) == <<"output_webp_folder", Stem(name), ".webp">>

\* Path(config["output_thumb_folder"]) / f"{name}_thumb.webp"
OutThumb(name) == <<"output_thumb_folder", Stem(name), "_thumb.webp">>

\* ------------------------------------------------- the input directory
\* What an entry of input_folder is: its name, its size and mtime, what the
\* decoder reports for it, and what the encoder produces for it.
\*   readable  : Image.open identifies the file
\*   format    : img.format of the opened file
\*   n_frames  : frame count (is_animated is n_frames > 1)
\*   durations : info["duration"] of each frame
\*   mode, transparency : img.mode and "transparency" in img.info
\*   main_ok, thumb_ok   : the main / thumbnail save() does not raise
\*   lossy, lossless, anim, thumb : byte sizes of the encodings
MkFile(name, size, mtime, readable, format, n_frames, durations, mode, transparency, main_ok, thumb_ok) ==
  [name |-> name, size |-> size, mtime |-> mtime, readable |-> readable,
   format |-> format, n_frames |-> n_frames, durations |-> durations,
   mode |-> mode, transparency |-> transparency,
   main_ok |-> main_ok, thumb_ok |-> thumb_ok,
   lossy |-> 300, lossless |-> 700, anim |-> 900, thumb |-> 50]

Directory ==
  << MkFile(<<"b", "png">>, 4000, 2, TRUE, "PNG", 1, <<0>>, "P", TRUE, TRUE, TRUE),
     MkFile(<<"c", "PNG">>, 2000, 2, TRUE, "PNG", 1, <<0>>, "RGBA", FALSE, TRUE, TRUE),
     MkFile(<<"c", "gif">>, 8000, 2, TRUE, "GIF", 3, <<10, 20, 30>>, "P", FALSE, TRUE, TRUE),
     MkFile(<<"d", "jpg">>, 500, 2, FALSE, "JPEG", 1, <<0>>, "RGB", FALSE, TRUE, TRUE),
     MkFile(<<"e", "webp">>, 16000, 2, TRUE, "WEBP", 1, <<0>>, "LA", FALSE, TRUE, FALSE),
     MkFile(<<"notes", "txt">>, 10, 2, FALSE, "", 1, <<0>>, "", FALSE, TRUE, TRUE) >>

\* A file of an output folder: absent, or its mtime, size and what was encoded.
Absent ==
  [exists |-> FALSE, mtime |-> 0, size |-> 0, enc |-> "", quality |-> 0,
   n_frames |-> 0, durations |-> << >>, of |-> << >>]

OnDisk(mtime, size, enc, quality, n_frames, durations, of) ==
  [exists |-> TRUE, mtime |-> mtime, size |-> size, enc |-> enc,
   quality |-> quality, n_frames |-> n_frames, durations |-> durations,
   of |-> of]

\* Outputs left by an earlier run: b is converted and current, e has a current
\* main image and no thumbnail.
OldOutputs(p) ==
  CASE p = OutWebp(<<"b", "png">>) -> OnDisk(3, 410, "lossless", 0, 1, << >>, <<"b", "png">>)
    [] p = OutThumb(<<"b", "png">>) -> OnDisk(3, 40, "lossless", 0, 1, << >>, <<"b", "png">>)
    [] p = OutWebp(<<"e", "webp">>) -> OnDisk(2, 420, "lossless", 0, 1, << >>, <<"e", "webp">>)
    [] OTHER -> Absent

\* ------------------------------------------------------------------ state
VARIABLES
  dir,            \* the entries of input_folder, as os.listdir returns them
  config,         \* the loaded configuration
  pc,             \* where main() is
  image_files,    \* gather_image_files(input_folder): the listing, in order
  fstate,         \* per future: "new", "pending", "running", "finished"
  taskpc,         \* per task: where process_single_file is ("main", "thumb")
  tstats,         \* per task: the stats dict of process_single_file
  result,         \* per future: what fut.result() returns or raises
  completed,      \* the futures in the order they finished
  prefinished,    \* futures already finished when as_completed was called
  consumed,       \* the futures in the order the loop of main() took them
  broken,         \* the pool lost a worker process
  disk,           \* the files of the two output folders
  calls,          \* per task: the decoder / encoder calls it made
  wrote,          \* per task: the output paths it wrote
  success_count, failed,
  total_original_size, total_webp_size, total_thumb_size,
  report,         \* the summary main() logged
  failed_file,    \* content of failed_list_file
  run,            \* the number of this run of the program over the folder
  prev            \* what the run before this one converted and left on disk

poolvars == <<fstate, taskpc, tstats, result, completed, broken, disk, calls, wrote>>
aggvars == <<success_count, failed, total_original_size, total_webp_size, total_thumb_size>>
hist == <<run, prev>>
vars == <<dir, config, pc, image_files, prefinished, consumed, poolvars, aggvars, report,
          failed_file, hist>>

\* The time at which this run writes its files
Clock == Now + run - 1

N == Len(image_files)
Tasks == 1 .. N

Range(s) == {s[k] : k \in DOMAIN s}

\* ------------------------------------------------------- gather_image_files
\* entry.lower().endswith(allowed)
IsImageName(name) == Lower(name[Len(name)]) \in allowed

RECURSIVE gather_image_files(_)
gather_image_files(entries) ==
  IF entries = << >> THEN << >>
  ELSE IF IsImageName(Head(entries).name)
       THEN <<Head(entries)>> \o gather_image_files(Tail(entries))
       ELSE gather_image_files(Tail(entries))

\* ---------------------------------------------------------------- decoder
\* Image.open(src_path): what the opened image file reports
ImageOpen(f) ==
  [format |-> f.format, is_animated |-> f.n_frames > 1, n_frames |-> f.n_frames,
   mode |-> f.mode, transparency |-> f.transparency, durations |-> f.durations]

\* ImageOps.exif_transpose(img) returns a new image (the transposed image or
\* img.copy()), never the opened file object: a new image has format None,
\* no is_animated and no n_frames attribute, and holds the current frame.
\* Mode and info are carried over.
exif_transpose(img) ==
  [img EXCEPT !.format = "", !.is_animated = FALSE, !.n_frames = 1,
              !.durations = <<img.durations[1]>>]

\* has_alpha without the palette case
has_alpha_NoPalette(img) == img.mode \in {"RGBA", "LA"}

\* has_alpha = img.mode in ("RGBA", "LA") or (img.mode == "P" and "transparency" in img.info)
has_alpha(img) ==
  \/ img.mode \in {"RGBA", "LA"}
  \/ (img.mode = "P" /\ img.transparency)

\* ------------------------------------------------------------ stats dict
EmptyStats ==
  [present |-> FALSE, original_size |-> 0, webp_size |-> 0, thumb_size |-> 0,
   total_size |-> 0, compression_ratio |-> 0]

\* stats as process_single_file initialises it
NewStats(f) == [EmptyStats EXCEPT !.present = TRUE, !.original_size = f.size]

\* (total_size / original_size) * 100 if original_size > 0 else 0,
\* kept in tenths of a percent
Ratio(total, original) == IF original > 0 THEN (total * 1000) \div original ELSE 0

\* Finalised with the total taken from the main image alone
Finalised_MainOnly(st) ==
  [st EXCEPT !.total_size = st.webp_size,
             !.compression_ratio = Ratio(st.webp_size, st.original_size)]

\* stats["total_size"] = ...; stats["compression_ratio"] = ...
Finalised(st) ==
  [st EXCEPT !.total_size = st.webp_size + st.thumb_size,
             !.compression_ratio = Ratio(st.webp_size + st.thumb_size, st.original_size)]

\* ---------------------------------------------------- process_single_file
\* MainUpToDate with > for >=
MainUpToDate_NewerOnly(f, d, cfg) ==
  /\ cfg.skip_existing
  /\ d[OutWebp(f.name)].exists
  /\ d[OutWebp(f.name)].mtime > f.mtime

\* MainUpToDate asking for a current thumbnail as well
MainUpToDate_NeedsThumb(f, d, cfg) ==
  /\ cfg.skip_existing
  /\ d[OutWebp(f.name)].exists
  /\ d[OutWebp(f.name)].mtime >= f.mtime
  /\ d[OutThumb(f.name)].exists
  /\ d[OutThumb(f.name)].mtime >= f.mtime

\* out_webp.exists() and out_webp.stat().st_mtime >= src.stat().st_mtime
MainUpToDate(f, d, cfg) ==
  /\ cfg.skip_existing
  /\ d[OutWebp(f.name)].exists
  /\ d[OutWebp(f.name)].mtime >= f.mtime

\* the stats returned on the "Skip (webp exists and up-to-date)" exit
SkipStats(f, d) ==
  Finalised([NewStats(f) EXCEPT
     !.webp_size = d[OutWebp(f.name)].size,
     !.thumb_size = IF d[OutThumb(f.name)].exists THEN d[OutThumb(f.name)].size ELSE 0])

\* is_animated and src_format in ("GIF", "WEBP")
AnimatedPath(img) == img.is_animated /\ img.format \in {"GIF", "WEBP"}

\* What the main save() call is asked to encode, from the image the code holds
MainEncoding(f, img, cfg) ==
  IF AnimatedPath(img)
  THEN OnDisk(Clock, f.anim, "animated", cfg.quality, img.n_frames, img.durations, f.name)
  ELSE IF has_alpha(img) /\ cfg.preserve_alpha
       THEN OnDisk(Clock, f.lossless, "lossless", 0, 1, << >>, f.name)
       ELSE OnDisk(Clock, f.lossy, "lossy", cfg.quality, 1, << >>, f.name)

\* out_thumb.exists() and out_thumb.stat().st_mtime >= src.stat().st_mtime
ThumbUpToDate(f, d, cfg) ==
  /\ cfg.skip_existing
  /\ d[OutThumb(f.name)].exists
  /\ d[OutThumb(f.name)].mtime >= f.mtime

\* thumb = img2.copy(); thumb.thumbnail(...): same mode and info, first frame
ThumbImage(f) == exif_transpose(ImageOpen(f))

\* ThumbEncoding without the alpha test
ThumbEncoding_AlwaysLossy(f, cfg) ==
  OnDisk(Clock, f.thumb, "lossy", cfg.quality, 1, << >>, f.name)

\* has_alpha_thumb and the two thumb.save() calls
ThumbEncoding(f, cfg) ==
  IF has_alpha(ThumbImage(f)) /\ cfg.preserve_alpha
  THEN OnDisk(Clock, f.thumb, "lossless", 0, 1, << >>, f.name)
  ELSE OnDisk(Clock, f.thumb, "lossy", cfg.quality, 1, << >>, f.name)

\* ------------------------------------------------------ process_file_task
\* (os.path.basename(src_path), True, msg, stats)
Returned(f, msg, st) ==
  [raised |-> FALSE, filename |-> f.name, ok |-> TRUE, message |-> msg, stats |-> st]

\* Caught with the exception reported as a success
Caught_AsSuccess(f, msg) ==
  [raised |-> FALSE, filename |-> f.name, ok |-> TRUE, message |-> msg, stats |-> EmptyStats]

\* (os.path.basename(src_path), False, str(e), {})
Caught(f, msg) ==
  [raised |-> FALSE, filename |-> f.name, ok |-> FALSE, message |-> msg, stats |-> EmptyStats]

\* fut.result() raises: the pool set an exception on the future
Raises(f, msg) ==
  [raised |-> TRUE, filename |-> f.name, ok |-> FALSE, message |-> msg, stats |-> EmptyStats]

\* ThumbFailed with the thumbnail's exception left to reach the caller
ThumbFailed_Raises(f, st) == Caught(f, "thumbnail failed")

\* except Exception as e_thumb: the main image stands, the message carries the
\* thumbnail's error
ThumbFailed(f, st) ==
  Returned(f, "Converted (thumbnail failed)",
           [st EXCEPT !.total_size = st.webp_size,
                      !.compression_ratio = Ratio(st.webp_size, st.original_size)])

NoResult ==
  [raised |-> FALSE, filename |-> << >>, ok |-> FALSE, message |-> "", stats |-> EmptyStats]

\* ------------------------------------------------------------- call log
\* A decoder call, and a save() call with what it was asked to encode
Call(op) == [op |-> op, enc |-> "", quality |-> 0, n_frames |-> 0, durations |-> << >>]

SaveCall(op, e) ==
  [op |-> op, enc |-> e.enc, quality |-> e.quality, n_frames |-> e.n_frames,
   durations |-> e.durations]

NoReport ==
  [printed |-> "none", files_processed |-> 0, files_failed |-> 0,
   total_original_size |-> 0, total_webp_size |-> 0, total_thumb_size |-> 0,
   total_output_size |-> 0, space_saved |-> 0, overall_compression_ratio |-> 0]

\* ----------------------------------------------------------- initial state
\* preserve_alpha and quality are left at their defaults of load_config here;
\* InitOne varies them
Configs ==
  [skip_existing : BOOLEAN, preserve_alpha : {TRUE}, quality : {100},
   max_workers : {1, MaxWorkers}]

\* The entries of Directory at the indices of S, in directory order
RECURSIVE Listing(_, _)
Listing(S, k) ==
  IF k > Len(Directory) THEN << >>
  ELSE (IF k \in S THEN <<Directory[k]>> ELSE << >>) \o Listing(S, k + 1)

\* Before the first run nothing was converted
NoPrev == [converted |-> {}, disk |-> << >>]

InitRest ==
  /\ pc = "start"
  /\ image_files = << >>
  /\ fstate = << >> /\ taskpc = << >> /\ tstats = << >> /\ result = << >>
  /\ calls = << >> /\ wrote = << >>
  /\ completed = << >> /\ prefinished = {} /\ consumed = << >>
  /\ broken = FALSE
  /\ success_count = 0 /\ failed = << >>
  /\ total_original_size = 0 /\ total_webp_size = 0 /\ total_thumb_size = 0
  /\ report = NoReport
  /\ failed_file = <<"unwritten">>
  /\ run = 1
  /\ prev = NoPrev

\* input_folder holds notes.txt and up to MaxFiles of the other entries
Init ==
  /\ \E S \in SUBSET (1 .. Len(Directory) - 1) :
       /\ Cardinality(S) <= MaxFiles
       /\ dir = Listing(S \cup {Len(Directory)}, 1)
  /\ config \in Configs
  /\ disk = [p \in {OutWebp(dir[k].name) : k \in DOMAIN dir}
                   \cup {OutThumb(dir[k].name) : k \in DOMAIN dir} |-> OldOutputs(p)]
  /\ InitRest

\* A run over one file, for every kind of file, every state of its outputs
\* and every configuration
MaxFrames == 2
Qualities == {1, 80, 100}

FileSpace ==
  {MkFile(<<"x", ef[1]>>, 1000, 2, TRUE, ef[2], n, [k \in 1 .. n |-> 10 * k], m, tr, mo, to) :
     ef \in {<<"gif", "GIF">>, <<"webp", "WEBP">>, <<"png", "PNG">>},
     n \in 1 .. MaxFrames, m \in {"RGB", "RGBA", "LA", "P"},
     tr \in BOOLEAN, mo \in BOOLEAN, to \in BOOLEAN}
  \cup {MkFile(<<"x", "gif">>, sz, 2, FALSE, "", 1, <<0>>, "", FALSE, TRUE, TRUE) : sz \in {0, 1000}}

\* An output of an earlier run: none, older than, as old as, newer than the source
Earlier(of) ==
  {Absent} \cup {OnDisk(t, 400 + t, "lossy", 80, 1, << >>, of) : t \in 1 .. 3}

InitOne ==
  /\ \E f \in FileSpace :
       /\ dir = <<f>>
       /\ \E m \in Earlier(f.name), t \in Earlier(f.name) :
            disk = [p \in {OutWebp(f.name), OutThumb(f.name)} |->
                      IF p = OutWebp(f.name) THEN m ELSE t]
  /\ config \in [skip_existing : BOOLEAN, preserve_alpha : BOOLEAN,
                 quality : Qualities, max_workers : {1}]
  /\ InitRest

\* --------------------------------------------------------------- main()
\* image_files = gather_image_files(...); if not image_files: return;
\* tasks, failed, success_count and the totals are set up
Start ==
  /\ pc = "start"
  /\ image_files' = gather_image_files(dir)
  /\ pc' = IF image_files' = << >> THEN "no_images" ELSE "submit"
  /\ fstate' = [i \in 1 .. Len(image_files') |-> "new"]
  /\ taskpc' = [i \in 1 .. Len(image_files') |-> "main"]
  /\ tstats' = [i \in 1 .. Len(image_files') |-> EmptyStats]
  /\ result' = [i \in 1 .. Len(image_files') |-> NoResult]
  /\ calls' = [i \in 1 .. Len(image_files') |-> << >>]
  /\ wrote' = [i \in 1 .. Len(image_files') |-> {}]
  /\ UNCHANGED <<hist, dir, config, prefinished, consumed, completed, broken, disk,
                 aggvars, report, failed_file>>

NumSubmitted == Cardinality({i \in Tasks : fstate[i] # "new"})

\* executor.submit(process_file_task, t), one task of the dict comprehension.
\* submit() raises BrokenProcessPool once the pool is broken; nothing in
\* main() catches it there.
Submit ==
  /\ pc = "submit"
  /\ NumSubmitted < N
  /\ IF broken
     THEN /\ pc' = "aborted"
          /\ UNCHANGED fstate
     ELSE /\ fstate' = [fstate EXCEPT ![NumSubmitted + 1] = "pending"]
          /\ UNCHANGED pc
  /\ UNCHANGED <<hist, dir, config, image_files, prefinished, consumed, taskpc, tstats,
                 result, completed, broken, disk, calls, wrote, aggvars, report,
                 failed_file>>

\* as_completed(future_to_path) is entered: the futures already finished are
\* collected into a set, the others are waited for
AsCompleted ==
  /\ pc = "submit"
  /\ NumSubmitted = N
  /\ pc' = "drain"
  /\ prefinished' = {i \in Tasks : fstate[i] = "finished"}
  /\ UNCHANGED <<hist, dir, config, image_files, consumed, poolvars, aggvars, report,
                 failed_file>>

\* ------------------------------------------------------ the process pool
Running == {i \in Tasks : fstate[i] = "running"}
Pending == {i \in Tasks : fstate[i] = "pending"}

\* StartTask without the limit of max_workers processes
StartTask_Unbounded(i) ==
  /\ fstate[i] = "pending"
  /\ ~broken
  /\ \A j \in Pending : i <= j
  /\ fstate' = [fstate EXCEPT ![i] = "running"]
  /\ UNCHANGED <<hist, dir, config, pc, image_files, prefinished, consumed, taskpc,
                 tstats, result, completed, broken, disk, calls, wrote, aggvars,
                 report, failed_file>>

\* A free worker process takes the oldest queued call
StartTask(i) ==
  /\ fstate[i] = "pending"
  /\ ~broken
  /\ \A j \in Pending : i <= j
  /\ Cardinality(Running) < config.max_workers
  /\ fstate' = [fstate EXCEPT ![i] = "running"]
  /\ UNCHANGED <<hist, dir, config, pc, image_files, prefinished, consumed, taskpc,
                 tstats, result, completed, broken, disk, calls, wrote, aggvars,
                 report, failed_file>>

\* process_file_task returns: the future of task i finishes with res
Finish(i, res) ==
  /\ fstate' = [fstate EXCEPT ![i] = "finished"]
  /\ result' = [result EXCEPT ![i] = res]
  /\ completed' = Append(completed, i)

\* What a save() that raised leaves at its path: the file as it was, or a
\* truncated new file
Truncated(f) == OnDisk(Clock, 0, "truncated", 0, 0, << >>, f.name)

\* process_single_file up to the main image: the skip check, then decode,
\* orientation, policy and the main save
MainStage(i) ==
  /\ fstate[i] = "running"
  /\ taskpc[i] = "main"
  /\ LET f == image_files[i]
         img == exif_transpose(ImageOpen(f))
         e == MainEncoding(f, img, config)
     IN
     IF MainUpToDate(f, disk, config)
     THEN /\ Finish(i, Returned(f, "Skip (webp exists and up-to-date)", SkipStats(f, disk)))
          /\ UNCHANGED <<taskpc, tstats, disk, calls, wrote>>
     ELSE IF ~f.readable
     THEN /\ Finish(i, Caught(f, "Skipped (not an image or corrupted)"))
          /\ calls' = [calls EXCEPT ![i] = <<Call("open")>>]
          /\ UNCHANGED <<taskpc, tstats, disk, wrote>>
     ELSE IF ~f.main_ok
     THEN /\ Finish(i, Caught(f, "save error"))
          /\ calls' = [calls EXCEPT ![i] =
                         <<Call("open"), Call("exif_transpose"), SaveCall("save_main", e)>>]
          /\ \E left \in BOOLEAN :
               IF left
               THEN /\ disk' = [disk EXCEPT ![OutWebp(f.name)] = Truncated(f)]
                    /\ wrote' = [wrote EXCEPT ![i] = @ \cup {OutWebp(f.name)}]
               ELSE UNCHANGED <<disk, wrote>>
          /\ UNCHANGED <<taskpc, tstats>>
     ELSE /\ disk' = [disk EXCEPT ![OutWebp(f.name)] = e]
          /\ wrote' = [wrote EXCEPT ![i] = @ \cup {OutWebp(f.name)}]
          /\ calls' = [calls EXCEPT ![i] =
                         <<Call("open"), Call("exif_transpose"), SaveCall("save_main", e)>>]
          /\ tstats' = [tstats EXCEPT ![i] = [NewStats(f) EXCEPT !.webp_size = e.size]]
          /\ taskpc' = [taskpc EXCEPT ![i] = "thumb"]
          /\ UNCHANGED <<fstate, result, completed>>
  /\ UNCHANGED <<hist, dir, config, pc, image_files, prefinished, consumed, broken,
                 aggvars, report, failed_file>>

\* process_single_file from "Create thumbnail" on
ThumbStage(i) ==
  /\ fstate[i] = "running"
  /\ taskpc[i] = "thumb"
  /\ LET f == image_files[i]
         st == tstats[i]
         e == ThumbEncoding(f, config)
         thumbcalls == <<Call("open"), Call("exif_transpose"), Call("thumbnail")>>
     IN
     IF ThumbUpToDate(f, disk, config)
     THEN /\ Finish(i, Returned(f, "Converted (webp ready). Thumbnail skipped (up-to-date)",
                     Finalised([st EXCEPT !.thumb_size = disk[OutThumb(f.name)].size])))
          /\ UNCHANGED <<disk, calls, wrote>>
     ELSE IF ~f.thumb_ok
     THEN /\ Finish(i, ThumbFailed(f, st))
          /\ \E left \in BOOLEAN :
               IF left
               THEN /\ disk' = [disk EXCEPT ![OutThumb(f.name)] = Truncated(f)]
                    /\ wrote' = [wrote EXCEPT ![i] = @ \cup {OutThumb(f.name)}]
                    /\ calls' = [calls EXCEPT ![i] = @ \o thumbcalls \o <<SaveCall("save_thumb", e)>>]
               ELSE /\ calls' = [calls EXCEPT ![i] = @ \o thumbcalls]
                    /\ UNCHANGED <<disk, wrote>>
     ELSE /\ disk' = [disk EXCEPT ![OutThumb(f.name)] = e]
          /\ wrote' = [wrote EXCEPT ![i] = @ \cup {OutThumb(f.name)}]
          /\ calls' = [calls EXCEPT ![i] = @ \o thumbcalls \o <<SaveCall("save_thumb", e)>>]
          /\ Finish(i, Returned(f, "Converted", Finalised([st EXCEPT !.thumb_size = e.size])))
  /\ UNCHANGED <<hist, dir, config, pc, image_files, prefinished, consumed, taskpc,
                 tstats, broken, aggvars, report, failed_file>>

\* The elements of a set of task numbers, in increasing order
RECURSIVE Ascending(_)
Ascending(S) ==
  IF S = {} THEN << >>
  ELSE LET m == CHOOSE x \in S : \A y \in S : x <= y
       IN <<m>> \o Ascending(S \ {m})

\* The worker process running task i dies. The pool is marked broken and every
\* future that has not finished gets a BrokenProcessPool exception.
WorkerCrash(i) ==
  /\ fstate[i] = "running"
  /\ broken' = TRUE
  /\ LET U == {j \in Tasks : fstate[j] \in {"pending", "running"}}
     IN /\ fstate' = [j \in Tasks |-> IF j \in U THEN "finished" ELSE fstate[j]]
        /\ result' = [j \in Tasks |-> IF j \in U
                                       THEN Raises(image_files[j], "BrokenProcessPool")
                                       ELSE result[j]]
        /\ completed' = completed \o Ascending(U)
  /\ UNCHANGED <<hist, dir, config, pc, image_files, prefinished, consumed, taskpc,
                 tstats, disk, calls, wrote, aggvars, report, failed_file>>

\* ------------------------------------------- the outcome loop of main()
\* The future as_completed yields next: any of those found finished at its
\* call, then the others in the order they finish
Yieldable(i) ==
  LET taken == Range(consumed)
      pre == prefinished \ taken
      later == SelectSeq(completed, LAMBDA j : j \notin taken /\ j \notin prefinished)
  IN /\ fstate[i] = "finished"
     /\ i \notin taken
     /\ IF pre # {} THEN i \in pre ELSE i = Head(later)

\* The running totals of main()
Agg ==
  [success_count |-> success_count, failed |-> failed,
   total_original_size |-> total_original_size,
   total_webp_size |-> total_webp_size,
   total_thumb_size |-> total_thumb_size]

\* LoopBody without the except branch's failed.append: a future that raised
\* is dropped
LoopBody_SwallowsRaise(a, r, f) ==
  IF r.raised
  THEN a
  ELSE IF r.ok
  THEN [a EXCEPT !.success_count = @ + 1,
                 !.total_original_size = @ + r.stats.original_size,
                 !.total_webp_size = @ + r.stats.webp_size,
                 !.total_thumb_size = @ + r.stats.thumb_size]
  ELSE [a EXCEPT !.failed = Append(@, <<r.filename, r.message>>)]

\* LoopBody without the addition to total_original_size
LoopBody_NoOriginal(a, r, f) ==
  IF r.raised
  THEN [a EXCEPT !.failed = Append(@, <<f.name, r.message>>)]
  ELSE IF r.ok
  THEN [a EXCEPT !.success_count = @ + 1,
                 !.total_webp_size = @ + r.stats.webp_size,
                 !.total_thumb_size = @ + r.stats.thumb_size]
  ELSE [a EXCEPT !.failed = Append(@, <<r.filename, r.message>>)]

\* LoopBody assigning the main-output size instead of adding it
LoopBody_LastWins(a, r, f) ==
  IF r.raised
  THEN [a EXCEPT !.failed = Append(@, <<f.name, r.message>>)]
  ELSE IF r.ok
  THEN [a EXCEPT !.success_count = @ + 1,
                 !.total_original_size = @ + r.stats.original_size,
                 !.total_webp_size = r.stats.webp_size,
                 !.total_thumb_size = @ + r.stats.thumb_size]
  ELSE [a EXCEPT !.failed = Append(@, <<r.filename, r.message>>)]

\* LoopBody with a failure put at the head of the list
LoopBody_Prepends(a, r, f) ==
  IF r.raised
  THEN [a EXCEPT !.failed = <<<<f.name, r.message>>>> \o @]
  ELSE IF r.ok
  THEN [a EXCEPT !.success_count = @ + 1,
                 !.total_original_size = @ + r.stats.original_size,
                 !.total_webp_size = @ + r.stats.webp_size,
                 !.total_thumb_size = @ + r.stats.thumb_size]
  ELSE [a EXCEPT !.failed = <<<<r.filename, r.message>>>> \o @]

\* The body of the loop for the future of source file f whose result is r:
\* the except branch when fut.result() raises, the ok branch, the failed branch
LoopBody(a, r, f) ==
  IF r.raised
  THEN [a EXCEPT !.failed = Append(@, <<f.name, r.message>>)]
  ELSE IF r.ok
  THEN [a EXCEPT !.success_count = @ + 1,
                 !.total_original_size = @ + r.stats.original_size,
                 !.total_webp_size = @ + r.stats.webp_size,
                 !.total_thumb_size = @ + r.stats.thumb_size]
  ELSE [a EXCEPT !.failed = Append(@, <<r.filename, r.message>>)]

\* One iteration of "for fut in as_completed(future_to_path)"
Consume(i) ==
  /\ pc = "drain"
  /\ Yieldable(i)
  /\ consumed' = Append(consumed, i)
  /\ LET a == LoopBody(Agg, result[i], image_files[i])
     IN /\ success_count' = a.success_count
        /\ failed' = a.failed
        /\ total_original_size' = a.total_original_size
        /\ total_webp_size' = a.total_webp_size
        /\ total_thumb_size' = a.total_thumb_size
  /\ UNCHANGED <<hist, dir, config, pc, image_files, prefinished, poolvars, report,
                 failed_file>>

\* "Calculate final statistics": what the summary reports for the totals a
FinalStatistics(a) ==
  [printed |-> "complete",
   files_processed |-> a.success_count, files_failed |-> Len(a.failed),
   total_original_size |-> a.total_original_size,
   total_webp_size |-> a.total_webp_size,
   total_thumb_size |-> a.total_thumb_size,
   total_output_size |-> a.total_webp_size + a.total_thumb_size,
   space_saved |-> a.total_original_size - (a.total_webp_size + a.total_thumb_size),
   overall_compression_ratio |->
      Ratio(a.total_webp_size + a.total_thumb_size, a.total_original_size)]

\* ------------------------------------------------------------- summary
\* "Calculate final statistics" and the summary log lines. The "Space used"
\* branch divides by total_original_size.
Summary ==
  /\ pc = "drain"
  /\ Len(consumed) = N
  /\ LET rep == FinalStatistics(Agg)
     IN IF rep.space_saved <= 0 /\ rep.total_original_size = 0
        THEN /\ pc' = "crashed"
             /\ report' = [rep EXCEPT !.printed = "partial"]
        ELSE /\ pc' = "write_failed"
             /\ report' = rep
  /\ UNCHANGED <<hist, dir, config, image_files, prefinished, consumed, poolvars, aggvars,
                 failed_file>>

\* "write failed list if any"
WriteFailedList ==
  /\ pc = "write_failed"
  /\ pc' = "done"
  /\ failed_file' = IF failed # << >> THEN failed ELSE failed_file
  /\ UNCHANGED <<hist, dir, config, image_files, prefinished, consumed, poolvars, aggvars,
                 report>>

\* ------------------------------------------------------- specifications
Next ==
  \/ Start
  \/ Submit
  \/ AsCompleted
  \/ \E i \in Tasks : StartTask(i)
  \/ \E i \in Tasks : MainStage(i)
  \/ \E i \in Tasks : ThumbStage(i)
  \/ \E i \in Tasks : WorkerCrash(i)
  \/ \E i \in Tasks : Consume(i)
  \/ Summary
  \/ WriteFailedList

Spec == Init /\ [][Next]_vars

SpecOne == InitOne /\ [][Next]_vars

\* A run with skip_existing and two workers over five files: two converted
\* earlier and current (b, e), a static image with alpha (a), an animated GIF
\* (c) and a file Pillow cannot identify (d)
ScenarioDir ==
  << MkFile(<<"a", "png">>, 2000, 2, TRUE, "PNG", 1, <<0>>, "RGBA", FALSE, TRUE, TRUE),
     Directory[1], Directory[3], Directory[4], Directory[5] >>

InitScenario ==
  /\ dir = ScenarioDir
  /\ config = [skip_existing |-> TRUE, preserve_alpha |-> TRUE, quality |-> 100,
               max_workers |-> 2]
  /\ disk = [p \in {OutWebp(dir[k].name) : k \in DOMAIN dir}
                   \cup {OutThumb(dir[k].name) : k \in DOMAIN dir} |-> OldOutputs(p)]
  /\ InitRest

SpecScenario == InitScenario /\ [][Next]_vars

\* The program is run again over the same folder with the same configuration:
\* the sources and the output folders are as the run before left them
Rerun ==
  /\ pc \in {"no_images", "aborted", "crashed", "done"}
  /\ run < MaxRuns
  /\ run' = run + 1
  /\ prev' = [converted |-> {image_files[i].name : i \in
                   {j \in Tasks : result[j].ok /\ OutWebp(image_files[j].name) \in wrote[j]}},
              disk |-> disk]
  /\ pc' = "start"
  /\ image_files' = << >>
  /\ fstate' = << >> /\ taskpc' = << >> /\ tstats' = << >> /\ result' = << >>
  /\ calls' = << >> /\ wrote' = << >>
  /\ completed' = << >> /\ prefinished' = {} /\ consumed' = << >>
  /\ broken' = FALSE
  /\ success_count' = 0 /\ failed' = << >>
  /\ total_original_size' = 0 /\ total_webp_size' = 0 /\ total_thumb_size' = 0
  /\ report' = NoReport
  /\ UNCHANGED <<dir, config, disk, failed_file>>

\* Runs over one static file whose mtime lies before the first run or after
\* the last one
RerunFiles ==
  {[f EXCEPT !.mtime = t] : f \in {g \in FileSpace : g.format = "PNG"},
                            t \in {2, Now + MaxRuns}}

InitRerun ==
  /\ \E f \in RerunFiles :
       /\ dir = <<f>>
       /\ \E m \in Earlier(f.name), t \in Earlier(f.name) :
            disk = [p \in {OutWebp(f.name), OutThumb(f.name)} |->
                      IF p = OutWebp(f.name) THEN m ELSE t]
  /\ config \in [skip_existing : BOOLEAN, preserve_alpha : {TRUE},
                 quality : {100}, max_workers : {1}]
  /\ InitRest

NextRerun ==
  \/ Next
  \/ Rerun

SpecRerun == InitRerun /\ [][NextRerun]_vars

\* =================================================================== claims
Drained == pc \in {"write_failed", "done", "crashed"}

\* C1: whatever the per-file results are (no worker process dies), main()
\* never stops on an error, and when it has ended the whole summary is
\* logged and, if a file failed, failed_list_file holds the failure list.
C1_RunCompletes ==
  ~broken =>
    /\ pc \notin {"crashed", "aborted"}
    /\ pc = "done" =>
         /\ report.printed = "complete"
         /\ (failed # << >> => failed_file = failed)

\* The number of records of the failure list that name the file f
FailureRecords(f) == Cardinality({k \in DOMAIN failed : failed[k][1] = f.name})

\* C2: while the loop runs every consumed future is counted once, as a
\* success or as a failure; once the loop has drained every file has been
\* consumed exactly once, success_count + len(failed) = N, a file that
\* succeeded has no failure record and every other file has exactly one.
C2_EachFileCountedOnce ==
  /\ success_count + Len(failed) = Len(consumed)
  /\ \A k, l \in DOMAIN consumed : k # l => consumed[k] # consumed[l]
  /\ Drained =>
       /\ Range(consumed) = Tasks
       /\ success_count + Len(failed) = N
       /\ success_count = Cardinality({i \in Tasks : result[i].ok})
       /\ \A i \in Tasks :
            FailureRecords(image_files[i]) = IF result[i].ok THEN 0 ELSE 1

\* C2 witness: a drained run of three files, consumed out of submission
\* order, with a success, a failed file and a future that raised
C2_Witness ==
  /\ pc = "done"
  /\ N = 3
  /\ consumed # <<1, 2, 3>>
  /\ success_count = 1
  /\ \E i, j \in Tasks : result[i].raised /\ ~result[j].raised /\ ~result[j].ok

\* C3: when the worker process of one file dies, only that file's future
\* fails with the pool's error, every other file keeps the outcome of its own
\* task, and the run is not aborted.
C3_CrashIsolated ==
  /\ Cardinality({j \in Tasks : result[j].raised}) <= 1
  /\ pc # "aborted"

\* C4: no two distinct files of the listing have the same main output path
\* or the same thumbnail output path.
C4_DistinctOutputPaths ==
  \A i, j \in Tasks :
    i # j =>
      /\ OutWebp(image_files[i].name) # OutWebp(image_files[j].name)
      /\ OutThumb(image_files[i].name) # OutThumb(image_files[j].name)

\* Task i takes the step of its main stage (its worker does not die)
MainStep(i) ==
  /\ fstate[i] = "running"
  /\ taskpc[i] = "main"
  /\ broken' = broken
  /\ (fstate'[i] # fstate[i] \/ taskpc'[i] # taskpc[i])

\* C5: when skip_existing is set and the main output exists with an mtime not
\* older than the source's, the task ends in its skip result, with the sizes
\* of the files on disk, having made no decoder or encoder call and having
\* written nothing.
C5_SkipWithoutCodec ==
  [][\A i \in Tasks :
       LET f == image_files[i]
       IN (/\ MainStep(i)
           /\ config.skip_existing
           /\ disk[OutWebp(f.name)].exists
           /\ disk[OutWebp(f.name)].mtime >= f.mtime)
          => /\ fstate'[i] = "finished"
             /\ result'[i].ok
             /\ result'[i].message = "Skip (webp exists and up-to-date)"
             /\ result'[i].stats.webp_size = disk[OutWebp(f.name)].size
             /\ result'[i].stats.thumb_size = disk[OutThumb(f.name)].size
             /\ calls'[i] = << >>
             /\ wrote'[i] = {}
             /\ disk' = disk]_vars

\* C5 witness: a task ended in the skip result with both outputs current and
\* an empty call log
C5_Witness ==
  \E i \in Tasks :
    /\ fstate[i] = "finished"
    /\ result[i].message = "Skip (webp exists and up-to-date)"
    /\ disk[OutWebp(image_files[i].name)].mtime = image_files[i].mtime
    /\ disk[OutThumb(image_files[i].name)].mtime > image_files[i].mtime
    /\ calls[i] = << >>

\* The sum of fn over the set S
RECURSIVE Sum(_, _)
Sum(fn, S) ==
  IF S = {} THEN 0
  ELSE LET x == CHOOSE y \in S : TRUE
       IN fn[x] + Sum(fn, S \ {x})

ConsumedOk == {i \in Range(consumed) : result[i].ok}

\* C6 as stated: every consumed outcome, failures included, has added the
\* original size of its file to total_original_size.
C6_OriginalAlwaysAdded ==
  total_original_size = Sum([i \in Tasks |-> image_files[i].size], Range(consumed))

\* C6 as amended: total_original_size is the sum of the original sizes of the
\* files consumed with a successful outcome (skipped and thumbnail-failed
\* ones included); a Failure outcome adds nothing to any of the three totals.
C6_OriginalOfSuccesses ==
  /\ total_original_size = Sum([i \in Tasks |-> image_files[i].size], ConsumedOk)
  /\ total_webp_size = Sum([i \in Tasks |-> result[i].stats.webp_size], ConsumedOk)
  /\ total_thumb_size = Sum([i \in Tasks |-> result[i].stats.thumb_size], ConsumedOk)

\* C6 witness: the loop has consumed a failed file of non-zero size, a skipped
\* file and a converted one
C6_Witness ==
  \E i, j, k \in Range(consumed) :
    /\ ~result[i].ok /\ ~result[i].raised /\ image_files[i].size > 0
    /\ result[j].message = "Skip (webp exists and up-to-date)"
    /\ result[k].message = "Converted"

\* The orders in which n outcomes can arrive, for every n up to MaxFiles
ArrivalsOf ==
  [n \in 1 .. MaxFiles |-> {p \in [1 .. n -> 1 .. n] : Range(p) = 1 .. n}]

Agg0 ==
  [success_count |-> 0, failed |-> << >>, total_original_size |-> 0,
   total_webp_size |-> 0, total_thumb_size |-> 0]

\* The totals after the loop body has run for the outcomes p[1], ..., p[k]
RECURSIVE FoldInOrder(_, _)
FoldInOrder(p, k) ==
  IF k = 0 THEN Agg0
  ELSE LoopBody(FoldInOrder(p, k - 1), result[p[k]], image_files[p[k]])

\* C7: the counts, the three totals, the output total, the space saved and
\* the overall ratio that main() reports once the loop has drained are those
\* the loop yields for every arrival order of the same outcomes.
C7_OrderIndependent ==
  (Drained /\ pc # "done") =>
    \A p \in ArrivalsOf[N] :
      [FinalStatistics(FoldInOrder(p, N)) EXCEPT !.printed = report.printed] = report

\* C7 witness: a finished run of three files with three different outcomes
\* (converted, thumbnail failed, failed), the last submitted arriving first
C7_Witness ==
  /\ pc = "write_failed"
  /\ N = 3
  /\ consumed[1] = 3
  /\ \E i, j, k \in Tasks :
       /\ result[i].message = "Converted"
       /\ result[j].message = "Converted (thumbnail failed)"
       /\ ~result[k].ok

\* The save() calls of task i for the main image
MainSaves(i) == {k \in DOMAIN calls[i] : calls[i][k].op = "save_main"}

\* C8: a main image encoded on the static path is encoded lossless when the
\* source has an alpha channel (mode RGBA or LA, or mode P with a transparency
\* entry) and preserve_alpha is set, whatever the quality; otherwise it is
\* encoded lossy at the configured quality.
C8_StaticLosslessRule ==
  \A i \in Tasks : \A k \in MainSaves(i) :
    LET f == image_files[i]
        c == calls[i][k]
        alpha == f.mode \in {"RGBA", "LA"} \/ (f.mode = "P" /\ f.transparency)
    IN c.enc # "animated" =>
         IF alpha /\ config.preserve_alpha
         THEN c.enc = "lossless"
         ELSE c.enc = "lossy" /\ c.quality = config.quality

\* C8 witness: a palette image with a transparency entry was written lossless
\* although the configured quality is 1
C8_Witness ==
  \E i \in Tasks :
    /\ image_files[i].mode = "P"
    /\ config.quality = 1
    /\ disk[OutWebp(image_files[i].name)].enc = "lossless"
    /\ OutWebp(image_files[i].name) \in wrote[i]

\* C9: the main image of an animated GIF or WEBP source is encoded as an
\* animation with the frame count and the per-frame delays of the source.
C9_AnimatedPreserved ==
  \A i \in Tasks : \A k \in MainSaves(i) :
    LET f == image_files[i]
        c == calls[i][k]
    IN (f.n_frames > 1 /\ f.format \in {"GIF", "WEBP"})
       => /\ c.enc = "animated"
          /\ c.n_frames = f.n_frames
          /\ c.durations = f.durations

\* The futures of sequence s that were not finished when as_completed was entered
Later(s) == SelectSeq(s, LAMBDA j : j \notin prefinished)

\* C10 as stated (for runs in which no worker process dies): at most
\* max_workers tasks run at any moment and the loop takes the outcomes in the
\* order the tasks finished.
C10_CompletionOrder ==
  ~broken =>
    /\ Cardinality(Running) <= config.max_workers
    /\ consumed = SubSeq(completed, 1, Len(consumed))

\* C10 as amended: at most max_workers tasks run at any moment; the loop takes
\* only outcomes of finished tasks; the tasks that finish after as_completed
\* was entered are taken in the order they finish, after those that had
\* finished before, which are taken in no particular order.
C10_BoundedAndInFinishOrder ==
  /\ Cardinality(Running) <= config.max_workers
  /\ \A k \in DOMAIN consumed : fstate[consumed[k]] = "finished"
  /\ Later(consumed) = SubSeq(Later(completed), 1, Len(Later(consumed)))
  /\ \A k, l \in DOMAIN consumed :
       (k < l /\ consumed[l] \in prefinished) => consumed[k] \in prefinished

\* C10 witness: max_workers tasks are running, the first submitted task among
\* them, and the outcome of a task submitted later is already consumed
C10_Witness ==
  /\ config.max_workers >= 2
  /\ Cardinality(Running) = config.max_workers
  /\ 1 \in Running
  /\ consumed # << >>
  /\ prefinished = {}

\* C11: the stats of every successful outcome have total_size = webp_size +
\* thumb_size and compression_ratio = total_size / original_size * 100 (in
\* tenths of a percent), 0 when original_size is 0; 1000, 300 and 50 give 35.0.
C11_SizesAndRatio ==
  \A i \in Tasks :
    (fstate[i] = "finished" /\ result[i].ok) =>
      LET st == result[i].stats
      IN /\ st.original_size = image_files[i].size
         /\ st.total_size = st.webp_size + st.thumb_size
         /\ st.original_size = 0 => st.compression_ratio = 0
         /\ st.original_size > 0 =>
              st.compression_ratio = (st.total_size * 1000) \div st.original_size
         /\ (st.original_size = 1000 /\ st.webp_size = 300 /\ st.thumb_size = 50)
              => st.compression_ratio = 350

\* C11 witness: a fully converted file of 1000 bytes with a main image of 300
\* and a thumbnail of 50 bytes
C11_Witness ==
  \E i \in Tasks :
    /\ result[i].message = "Converted"
    /\ result[i].stats.original_size = 1000
    /\ result[i].stats.webp_size = 300
    /\ result[i].stats.thumb_size = 50
    /\ result[i].stats.compression_ratio = 350

\* C12: the run over the five files of ScenarioDir with two workers and
\* skip_existing ends, whatever the interleaving of the tasks, with two
\* skipped-main outcomes, one failure, one lossless success and one animated
\* success, and a failure list of exactly one line.
C12_ScenarioOutcome ==
  (pc = "done" /\ ~broken) =>
    /\ Cardinality({i \in Tasks :
         result[i].message = "Skip (webp exists and up-to-date)"}) = 2
    /\ Cardinality({i \in Tasks : ~result[i].ok}) = 1
    /\ Cardinality({i \in Tasks : result[i].ok /\
         \E k \in MainSaves(i) : calls[i][k].enc = "lossless"}) = 1
    /\ Cardinality({i \in Tasks : result[i].ok /\
         \E k \in MainSaves(i) : calls[i][k].enc = "animated"}) = 1
    /\ Len(failed_file) = 1

\* C13: a task whose main image is skipped as up to date goes on to the
\* thumbnail check, so it never ends as a success that leaves the thumbnail
\* missing or older than the source.
C13_SkipChecksThumbnail ==
  \A i \in Tasks :
    (fstate[i] = "finished"
       /\ result[i].message = "Skip (webp exists and up-to-date)") =>
      LET f == image_files[i]
          t == disk[OutThumb(f.name)]
      IN t.exists /\ t.mtime >= f.mtime

\* The thumbnail generation of task i was attempted and raised
ThumbRaised(i) ==
  /\ fstate[i] = "finished" /\ ~result[i].raised
  /\ ~image_files[i].thumb_ok
  /\ \E k \in DOMAIN calls[i] : calls[i][k].op = "thumbnail"

\* C14: when the main image was produced and the thumbnail stage fails, the
\* outcome is a success whose message carries the thumbnail error, with thumb
\* size 0 and total size equal to the main size; the aggregator counts it as a
\* success and adds nothing to the failure list.
C14_ThumbnailFailureIsSuccess ==
  \A i \in Tasks :
    ThumbRaised(i) =>
      LET f == image_files[i]
          r == result[i]
      IN /\ r.ok
         /\ r.message = "Converted (thumbnail failed)"
         /\ r.stats.thumb_size = 0
         /\ r.stats.webp_size \in {f.lossy, f.lossless, f.anim}
         /\ r.stats.total_size = r.stats.webp_size
         /\ i \in Range(consumed) =>
              /\ FailureRecords(f) = 0
              /\ success_count = Cardinality(ConsumedOk)
              /\ (pc = "done" /\ failed # << >>) =>
                   \A k \in DOMAIN failed_file : failed_file[k][1] # f.name

\* C14 witness: a run has ended after consuming an outcome whose thumbnail
\* failed, next to a failure that was written to the failure list
C14_Witness ==
  /\ pc = "done"
  /\ failed # << >>
  /\ \E i \in Range(consumed) : ThumbRaised(i) /\ OutWebp(image_files[i].name) \in wrote[i]

\* The decode or the main encode of task i was attempted and raised
MainRaised(i) ==
  /\ fstate[i] = "finished" /\ ~result[i].raised
  /\ calls[i] # << >>
  /\ ~image_files[i].readable \/ ~image_files[i].main_ok

\* C15: when the decode or the main encode of a file fails, the task ends as a
\* failure: no thumbnail step is attempted and no thumbnail file written, the
\* outcome is unsuccessful and carries the error message, and once consumed
\* the file is in the failure list.
C15_MainFailureIsFailure ==
  \A i \in Tasks :
    MainRaised(i) =>
      LET f == image_files[i]
          r == result[i]
      IN /\ ~r.ok
         /\ r.message = IF f.readable THEN "save error"
                        ELSE "Skipped (not an image or corrupted)"
         /\ \A k \in DOMAIN calls[i] : calls[i][k].op \notin {"thumbnail", "save_thumb"}
         /\ taskpc[i] = "main"
         /\ OutThumb(f.name) \notin wrote[i]
         /\ i \in Range(consumed) =>
              /\ FailureRecords(f) = 1
              /\ \E k \in DOMAIN failed : failed[k] = <<f.name, r.message>>
              /\ success_count = Cardinality(ConsumedOk)

\* C15 witness: the main encode of a readable file raised after leaving a
\* truncated file, and the outcome was consumed
C15_Witness ==
  \E i \in Range(consumed) :
    /\ MainRaised(i)
    /\ image_files[i].readable
    /\ OutWebp(image_files[i].name) \in wrote[i]
    /\ failed = << <<image_files[i].name, "save error">> >>

\* The failure records of the outcomes of sequence s, in the order of s
FailuresOf(s) ==
  LET sel == SelectSeq(s, LAMBDA j : ~result[j].ok)
  IN [k \in 1 .. Len(sel) |-> <<image_files[sel[k]].name, result[sel[k]].message>>]

\* C16: after any sequence of consumed outcomes the failure list holds exactly
\* the files whose outcome was a failure, never a success or a partial
\* success, one record each, in the order the outcomes arrived; it only grows
\* during the run, and the list written at the end is that list.
C16_FailureListExact ==
  [][/\ Len(failed') >= Len(failed)
     /\ SubSeq(failed', 1, Len(failed)) = failed
     /\ failed' = FailuresOf(consumed)'
     /\ (pc' = "done" /\ failed' # << >>) => failed_file' = failed']_vars

\* C16 witness: two failures were recorded in the reverse of their submission
\* order, and an outcome whose thumbnail failed was consumed without a record
C16_Witness ==
  /\ pc = "done"
  /\ Len(failed) = 2
  /\ \E i, j \in Tasks :
       /\ i < j
       /\ failed[1][1] = image_files[j].name
       /\ failed[2][1] = image_files[i].name
  /\ \E k \in Range(consumed) : result[k].message = "Converted (thumbnail failed)"

\* C17: once every outcome of a run whose pool stayed up is consumed, the
\* summary reports without error, for all totals, the overall ratio total
\* output / total original * 100 (0 when the total original is 0) and the
\* space saved, total original minus total output, which may be negative.
C17_SummaryFigures ==
  (Drained /\ Len(consumed) = N /\ ~broken) =>
    LET out == total_webp_size + total_thumb_size
    IN /\ report.printed = "complete"
       /\ report.total_output_size = out
       /\ report.space_saved = total_original_size - out
       /\ report.overall_compression_ratio =
            IF total_original_size = 0 THEN 0
            ELSE (out * 1000) \div total_original_size

\* The thumbnail save() calls of task i
ThumbSaves(i) == {k \in DOMAIN calls[i] : calls[i][k].op = "save_thumb"}

\* C18: the thumbnail is encoded as one static frame, lossless exactly when
\* its frame has alpha (mode RGBA or LA, or P with transparency) and
\* preserve_alpha is on and otherwise lossy at the configured quality, whatever
\* the main image was encoded as; for an animated source too.
C18_ThumbnailRule ==
  \A i \in Tasks : \A k \in ThumbSaves(i) :
    LET f == image_files[i]
        c == calls[i][k]
        alpha == f.mode \in {"RGBA", "LA"} \/ (f.mode = "P" /\ f.transparency)
    IN /\ c.n_frames = 1
       /\ c.durations = << >>
       /\ c.enc = IF alpha /\ config.preserve_alpha THEN "lossless" ELSE "lossy"
       /\ c.enc = "lossy" => c.quality = config.quality
       /\ result[i].message = "Converted" =>
            /\ disk[OutThumb(f.name)].enc = c.enc
            /\ disk[OutThumb(f.name)].n_frames = 1

\* C18 witness: the thumbnail of an animated GIF with a transparent palette
\* was written lossless as a single frame
C18_Witness ==
  \E i \in Tasks :
    /\ image_files[i].n_frames > 1
    /\ image_files[i].format = "GIF"
    /\ image_files[i].mode = "P"
    /\ result[i].message = "Converted"
    /\ ThumbSaves(i) # {}
    /\ disk[OutThumb(image_files[i].name)].enc = "lossless"
    /\ disk[OutThumb(image_files[i].name)].n_frames = 1

\* Task i of a later run has returned, for a file whose main image the run
\* before converted successfully, with skip_existing on
Reconsidered(i) ==
  /\ run > 1
  /\ config.skip_existing
  /\ fstate[i] = "finished" /\ ~result[i].raised
  /\ image_files[i].name \in prev.converted

\* The task of a later run skipped the file without a decode or encode call
\* and left its two output files as the run before left them
SkippedUntouched(i) ==
  LET f == image_files[i]
  IN /\ result[i].message = "Skip (webp exists and up-to-date)"
     /\ calls[i] = << >>
     /\ wrote[i] = {}
     /\ disk[OutWebp(f.name)] = prev.disk[OutWebp(f.name)]
     /\ disk[OutThumb(f.name)] = prev.disk[OutThumb(f.name)]

\* C19: with skip_existing on, a file whose main image a run converted
\* successfully and whose source was not modified since is skipped by a second
\* run, which makes no decode or encode call for it and leaves its main image
\* and its thumbnail unchanged.
C19_RerunIdempotent ==
  \A i \in Tasks : Reconsidered(i) => SkippedUntouched(i)

\* C19 as amended: the same, for a source whose modification time is not
\* later than that of the main image the first run wrote.
C19_RerunIdempotentIfNotPostdated ==
  \A i \in Tasks :
    (Reconsidered(i)
       /\ image_files[i].mtime <= prev.disk[OutWebp(image_files[i].name)].mtime)
      => SkippedUntouched(i)

\* C19 witness: a second run has ended after skipping a file the first run
\* converted, whose thumbnail the first run failed to write
C19_Witness ==
  /\ pc = "done"
  /\ \E i \in Range(consumed) :
       /\ Reconsidered(i)
       /\ SkippedUntouched(i)
       /\ ~prev.disk[OutThumb(image_files[i].name)].exists

====
